---- MODULE Spec2Model ----
(***************************************************************************)
(* calstats (src/main.go): half-day slot generation, event/slot overlap    *)
(* matching, event categorisation and the aggregation into one CSV row.    *)
(*                                                                         *)
(* Time.  An instant (time.Time) is an integer number of hours since       *)
(* Monday 2021-03-08 00:00 UTC; a time.Duration is a number of hours.      *)
(* Text.  A string the code inspects character by character (a title, a    *)
(* regular expression, a formatted number) is a sequence of one-character  *)
(* strings; a string the code only compares is a TLA+ string.              *)
(* Pointers.  A pointer field is a sequence of length 0 (nil) or 1.        *)
(***************************************************************************)
EXTENDS Integers, Sequences, FiniteSets

VARIABLES
    ignoreRegexps,  \* global: compiled ignore patterns (main.go:22)
    start,          \* global: the -start flag (main.go:23)
    duration,       \* global: the -duration flag, hours (main.go:24)
    args,           \* flag.Args(): the calendar ids to process
    argi,           \* position of main's range loop over flag.Args()
    pc,             \* where the program is
    err,            \* the error that reached log.Fatalf, "" when none
    csv,            \* first column of the rows handed to the CSV writer, in order
    id,             \* processCalendar: id
    cal,            \* processCalendar: cal (its TimeZone)
    slots,          \* processCalendar: slots
    timeMin,        \* processCalendar: start (sent as TimeMin)
    timeMax,        \* processCalendar: end (sent as TimeMax)
    events,         \* processCalendar: events.Items
    si,             \* processCalendar: position of the range loop over slots
    freeSlots,      \* processCalendar: freeSlots
    totalMeetings,  \* processCalendar: totalMeetings
    totals,         \* processCalendar: totals
    columns,        \* processCalendar: columns (the row handed to writer.Write)
    call,           \* direct call of one function: its name and arguments
    ret             \* result of that call: <<>> before, <<value>> after

vars == <<ignoreRegexps, start, duration, args, argi, pc, err, csv, id, cal,
          slots, timeMin, timeMax, events, si, freeSlots, totalMeetings,
          totals, columns, call, ret>>

globals == <<ignoreRegexps, start, duration>>
mainVars == <<args, argi, pc, err, csv>>
procVars == <<id, cal, slots, timeMin, timeMax, events, si, freeSlots,
              totalMeetings, totals, columns>>
callVars == <<call, ret>>

(***************************************************************************)
(* Bounds of the model.                                                    *)
(***************************************************************************)
MaxEvents == 2       \* longest event list the data source returns
MaxAttendees == 2    \* longest attendee list of an event
MaxDuration == 100   \* largest -duration value tried on workingSlots

Range(s) == {s[k] : k \in DOMAIN s}

RECURSIVE SeqsUpTo(_, _)
SeqsUpTo(S, n) ==
    IF n = 0 THEN {<<>>}
    ELSE LET shorter == SeqsUpTo(S, n - 1)
         IN  shorter \cup {Append(q, x) : q \in {r \in shorter : Len(r) = n - 1}, x \in S}

(***************************************************************************)
(* Categories (main.go:26-36).                                             *)
(***************************************************************************)
personal == "personal"
ignore == "ignored"
declined == "declined"
notAccepted == "not accepted"
hiring == "hiring"
meeting == "meeting"

categories == <<personal, ignore, declined, notAccepted, hiring, meeting>>

countUnsorted == <<meeting, hiring>>
count == <<hiring, meeting>>

\* Byte-wise order of the strings that reach sort.SearchStrings.
StringRank(s) ==
    CASE s = "declined" -> 1
      [] s = "hiring" -> 2
      [] s = "ignored" -> 3
      [] s = "meeting" -> 4
      [] s = "not accepted" -> 5
      [] s = "personal" -> 6

\* sort.SearchStrings(a, x): binary search for the smallest index k (0-based)
\* with a[k] >= x, Len(a) when there is none; a is assumed sorted.
RECURSIVE SearchFrom(_, _, _, _)
SearchFrom(a, x, lo, hi) ==
    IF lo >= hi THEN lo
    ELSE LET h == (lo + hi) \div 2
         IN  IF StringRank(a[h + 1]) >= StringRank(x)
             THEN SearchFrom(a, x, lo, h)
             ELSE SearchFrom(a, x, h + 1, hi)

SearchStrings(a, x) == SearchFrom(a, x, 0, Len(a))

\* main.go:159: i := sort.SearchStrings(count, category); i < len(count) && count[i] == category
isCounted(category) ==
    LET k == SearchStrings(count, category)
    IN  k < Len(count) /\ count[k + 1] = category

(***************************************************************************)
(* Text: strings.Contains, strings.HasPrefix, regexp.                      *)
(***************************************************************************)
Contains(s, sub) ==
    \E k \in 1..(Len(s) + 1) :
        /\ k + Len(sub) - 1 <= Len(s)
        /\ SubSeq(s, k, k + Len(sub) - 1) = sub

HasPrefix(s, p) == Len(p) <= Len(s) /\ SubSeq(s, 1, Len(p)) = p

\* The marker text of main.go:226, one token of a description.
LeverLink == <<"https://hire.lever.co/interviews">>

\* A pattern is a sequence of tokens: a literal character or ".*".
RECURSIVE MatchHere(_, _)
MatchHere(p, s) ==
    IF p = <<>> THEN s = <<>>
    ELSE IF Head(p) = ".*"
         THEN MatchHere(Tail(p), s) \/ (s # <<>> /\ MatchHere(p, Tail(s)))
         ELSE s # <<>> /\ Head(s) = Head(p) /\ MatchHere(Tail(p), Tail(s))

\* strings.TrimSpace: leading and trailing white space is cut off.
RECURSIVE TrimLeft(_)
TrimLeft(s) == IF s # <<>> /\ Head(s) = " " THEN TrimLeft(Tail(s)) ELSE s

RECURSIVE TrimRight(_)
TrimRight(s) ==
    IF s # <<>> /\ s[Len(s)] = " " THEN TrimRight(SubSeq(s, 1, Len(s) - 1)) ELSE s

TrimSpace(s) == TrimRight(TrimLeft(s))

\* regexp.Compile(expr) for expr = "^" + line + "$": an opening parenthesis
\* (the texts of the model have no closing one) is a syntax error; otherwise
\* the compiled expression keeps the pattern between the two anchors.
Compile(expr) ==
    IF "(" \in Range(expr)
    THEN [err |-> "RegexpSyntaxError", re |-> <<>>]
    ELSE [err |-> "",
          re |-> <<[anchored |-> TRUE, pattern |-> SubSeq(expr, 2, Len(expr) - 1)]>>]

\* r.MatchString(s) for a pattern anchored at both ends: the whole of s.
MatchString(r, s) == MatchHere(r.pattern, s)

\* A file: the error of os.Open ("" when it opens), its lines, and the error
\* the scanner meets after the last of them ("" when it reaches the end).
File(lines) == [openErr |-> "", lines |-> lines, scanErr |-> ""]
MissingFile == [openErr |-> "FileError", lines |-> <<>>, scanErr |-> ""]
BrokenFile(lines) == [openErr |-> "", lines |-> lines, scanErr |-> "ReadError"]

\* main.go:84-100: the loop over the lines from the k-th on, then scanner.Err().
\* A comment line is skipped, any other trimmed line (an empty one too) is
\* compiled; the first line that does not compile ends the call.
RECURSIVE scanLoop(_, _, _)
scanLoop(file, k, result) ==
    IF k > Len(file.lines)
    THEN IF file.scanErr # ""
         THEN [err |-> file.scanErr, result |-> <<>>]
         ELSE [err |-> "", result |-> result]
    ELSE LET line == TrimSpace(file.lines[k])
         IN  IF HasPrefix(line, <<"#">>)
             THEN scanLoop(file, k + 1, result)
             ELSE LET r == Compile(<<"^">> \o line \o <<"$">>)
                  IN  IF r.err # ""
                      THEN [err |-> r.err, result |-> <<>>]
                      ELSE scanLoop(file, k + 1, result \o r.re)

\* loadIgnores(filename): (result, nil) or (nil, err).
loadIgnores(file) ==
    IF file.openErr # ""
    THEN [err |-> file.openErr, result |-> <<>>]
    ELSE scanLoop(file, 1, <<>>)

(***************************************************************************)
(* Time: locations, civil time, RFC 3339 timestamps.                       *)
(***************************************************************************)
Locations == {"UTC", "America/New_York"}

\* UTC offset in force at instant t.  New York is on EST (-5) until
\* Sunday 2021-03-14 07:00 UTC and on EDT (-4) from then on.
Offset(loc, t) ==
    IF loc = "UTC" THEN 0
    ELSE IF t < 6 * 24 + 7 THEN 0 - 5 ELSE 0 - 4

Local(loc, t) == t + Offset(loc, t)
CivilDay(loc, t) == Local(loc, t) \div 24
HourOfDay(loc, t) == Local(loc, t) % 24

\* t.Weekday(): Sunday = 0 ... Saturday = 6; civil day 0 is a Monday.
Weekday(loc, t) == (CivilDay(loc, t) + 1) % 7
Sunday == 0
Saturday == 6

\* time.LoadLocation
LoadLocation(tz) ==
    IF tz \in Locations THEN [err |-> "", loc |-> tz]
    ELSE [err |-> "unknown time zone", loc |-> "UTC"]

\* A "2006/01/02 15:04:05" string is its civil day and hour, or is malformed.
StartString(day, hour) == [text |-> "civil", day |-> day, hour |-> hour]
BadStartString == [text |-> "garbage", day |-> 0, hour |-> 0]

\* time.ParseInLocation: the instant whose local reading in loc is the string.
ParseInLocation(s, loc) ==
    IF s.text # "civil" THEN [err |-> "cannot parse start", t |-> 0]
    ELSE LET civil == s.day * 24 + s.hour
         IN  [err |-> "",
              t |-> CHOOSE t \in (civil - 14)..(civil + 14) : Local(loc, t) = civil]

\* An RFC 3339 string is its instant, or is empty, or is malformed.
DateTime(t) == [text |-> "rfc3339", t |-> t]
EmptyDateTime == [text |-> "", t |-> 0]
BadDateTime == [text |-> "garbage", t |-> 0]

\* time.Parse(time.RFC3339, s)
ParseRFC3339(s) ==
    IF s.text = "rfc3339" THEN [err |-> "", t |-> s.t]
    ELSE [err |-> "MalformedEventTime", t |-> 0]

(***************************************************************************)
(* Events as the data source returns them (calv3.Event).                   *)
(***************************************************************************)
Event(summary, description, startDT, endDT, original, creator, attendees) ==
    [Summary |-> summary, Description |-> description,
     Start |-> [DateTime |-> startDT], End |-> [DateTime |-> endDT],
     OriginalStartTime |-> original, Creator |-> creator,
     Attendees |-> attendees]

Attendee(email, status) == [Email |-> email, ResponseStatus |-> status]

(***************************************************************************)
(* parseStartEnd (main.go:182-223): returns (start, end, err).             *)
(***************************************************************************)
parseStartEnd(event) ==
    LET s == ParseRFC3339(event.Start.DateTime)
    IN  IF s.err # "" THEN [err |-> s.err, start |-> s.t, end |-> 0]
        ELSE
          LET \* main.go:205 parses event.Start.DateTime a second time
              o == IF event.OriginalStartTime # <<>>
                   THEN ParseRFC3339(event.Start.DateTime)
                   ELSE [err |-> "", t |-> 0]
          IN  IF o.err # "" THEN [err |-> o.err, start |-> s.t, end |-> 0]
              ELSE
                LET st == IF event.OriginalStartTime # <<>> /\ o.t > s.t
                          THEN o.t ELSE s.t
                    e == ParseRFC3339(event.End.DateTime)
                IN  [err |-> e.err, start |-> st, end |-> e.t]

(***************************************************************************)
(* categorise (main.go:225-262).                                           *)
(***************************************************************************)
\* main.go:226
isHiring(event) == Contains(event.Description, LeverLink)

isPersonalAnyCreator(email, event) ==
    \/ Len(event.Attendees) = 0
    \/ Len(event.Attendees) = 1 /\ event.Attendees[1].Email = email

\* main.go:232-239
isPersonal(email, event) ==
    /\ event.Creator # <<>> /\ event.Creator[1].Self
    /\ \/ Len(event.Attendees) = 0
       \/ Len(event.Attendees) = 1 /\ event.Attendees[1].Email = email

\* main.go:242-246
isIgnored(event) ==
    \E k \in DOMAIN ignoreRegexps : MatchString(ignoreRegexps[k], event.Summary)

RECURSIVE attendeeLoopOnlyNeedsAction(_, _, _)
attendeeLoopOnlyNeedsAction(email, attendees, k) ==
    IF k > Len(attendees) THEN meeting
    ELSE IF attendees[k].Email # email
         THEN attendeeLoopOnlyNeedsAction(email, attendees, k + 1)
         ELSE IF attendees[k].ResponseStatus = "declined" THEN declined
              ELSE IF attendees[k].ResponseStatus = "needsAction" THEN notAccepted
                   ELSE attendeeLoopOnlyNeedsAction(email, attendees, k + 1)

\* main.go:249-261: the loop over the attendees from the k-th on, and the
\* final return.
RECURSIVE attendeeLoop(_, _, _)
attendeeLoop(email, attendees, k) ==
    IF k > Len(attendees) THEN meeting
    ELSE IF attendees[k].Email # email
         THEN attendeeLoop(email, attendees, k + 1)
         ELSE IF attendees[k].ResponseStatus = "declined" THEN declined
              ELSE IF attendees[k].ResponseStatus # "accepted" THEN notAccepted
                   ELSE attendeeLoop(email, attendees, k + 1)

categorisePersonalFirst(email, event) ==
    IF isPersonal(email, event) THEN personal
    ELSE IF isHiring(event) THEN hiring
    ELSE IF isIgnored(event) THEN ignore
    ELSE attendeeLoop(email, event.Attendees, 1)

categorise(email, event) ==
    IF isHiring(event) THEN hiring
    ELSE IF isPersonal(email, event) THEN personal
    ELSE IF isIgnored(event) THEN ignore
    ELSE attendeeLoop(email, event.Attendees, 1)

(***************************************************************************)
(* workingSlots (main.go:264-303).                                         *)
(***************************************************************************)
slot(summary, from, to) == [summary |-> summary, start |-> from, end |-> to]

\* curr.Format("Mon Jan 2") names the civil day of curr in its location.
DayLabel(loc, curr) == CivilDay(loc, curr)

RECURSIVE slotLoopInclusiveEnd(_, _, _, _)
slotLoopInclusiveEnd(loc, curr, end, result) ==
    IF ~(curr <= end) THEN result
    ELSE IF Weekday(loc, curr) = Saturday \/ Weekday(loc, curr) = Sunday
         THEN slotLoopInclusiveEnd(loc, curr + 24, end, result)
         ELSE slotLoopInclusiveEnd(loc, curr + 24, end,
                  result \o <<slot(<<DayLabel(loc, curr), "Morning">>, curr, curr + 6),
                              slot(<<DayLabel(loc, curr), "Afternoon">>, curr + 6, curr + 12)>>)

\* main.go:283-300: for curr := start; curr.Before(end); curr = curr.Add(24h)
RECURSIVE slotLoop(_, _, _, _)
slotLoop(loc, curr, end, result) ==
    IF ~(curr < end) THEN result
    ELSE IF Weekday(loc, curr) = Saturday \/ Weekday(loc, curr) = Sunday
         THEN slotLoop(loc, curr + 24, end, result)
         ELSE slotLoop(loc, curr + 24, end,
                  result \o <<slot(<<DayLabel(loc, curr), "Morning">>, curr, curr + 6),
                              slot(<<DayLabel(loc, curr), "Afternoon">>, curr + 6, curr + 12)>>)

\* Returns (slots, start, end, err); reads the globals start and duration.
workingSlots(tz) ==
    LET l == LoadLocation(tz)
    IN  IF l.err # "" THEN [err |-> l.err, slots |-> <<>>, start |-> 0, end |-> 0]
        ELSE
          LET p == ParseInLocation(start, l.loc)
          IN  IF p.err # "" THEN [err |-> p.err, slots |-> <<>>, start |-> 0, end |-> 0]
              ELSE LET end == p.t + duration
                   IN  [err |-> "", slots |-> slotLoop(l.loc, p.t, end, <<>>),
                        start |-> p.t, end |-> end]

(***************************************************************************)
(* Formatting of the output row: strconv.Itoa and fmt.Sprintf.             *)
(***************************************************************************)
Digit(d) == <<"0", "1", "2", "3", "4", "5", "6", "7", "8", "9">>[d + 1]

\* The decimal digits of n >= 0, "0" for 0.
RECURSIVE Digits(_)
Digits(n) == IF n < 10 THEN <<Digit(n)>> ELSE Digits(n \div 10) \o <<Digit(n % 10)>>

\* strconv.Itoa
Itoa(n) == IF n < 0 THEN <<"-">> \o Digits(0 - n) ELSE Digits(n)

\* Go's integer division truncates toward zero.
Quo(a, b) == IF a >= 0 THEN a \div b ELSE 0 - ((0 - a) \div b)

\* fmt.Sprintf("%0.1f", d.Hours()) for a whole number of hours d.
SprintfHours(d) == Itoa(d) \o <<".", "0">>

\* fmt.Sprintf("%0.0d%%", n): the precision .0 prints the value 0 with no
\* digits at all; any other value prints as its decimal digits.
SprintfPercent(n) == (IF n = 0 THEN <<>> ELSE Itoa(n)) \o <<"%">>

(***************************************************************************)
(* processCalendar (main.go:105-180): the loop over the events for one     *)
(* slot.  acc carries err, totals, totalMeetings and meetingFound.         *)
(***************************************************************************)
overlapsTouching(from, to, s) == from <= s.end /\ to >= s.start

\* main.go:148
overlaps(from, to, s) == from < s.end /\ to > s.start

eventStepSkipMalformed(email, s, event, acc) ==
    IF event.Start.DateTime = EmptyDateTime THEN acc
    ELSE
      LET p == parseStartEnd(event)
      IN  IF p.err # "" THEN acc
          ELSE IF ~overlaps(p.start, p.end, s) THEN acc
          ELSE
            LET category == categorise(email, event)
                d == p.end - p.start
            IN  [err |-> "",
                 totals |-> [acc.totals EXCEPT ![category] = @ + d],
                 totalMeetings |-> IF isCounted(category)
                                   THEN acc.totalMeetings + d
                                   ELSE acc.totalMeetings,
                 meetingFound |-> acc.meetingFound \/ isCounted(category)]

\* main.go:137-163: one iteration of the loop over events.Items.
eventStep(email, s, event, acc) ==
    IF event.Start.DateTime = EmptyDateTime THEN acc
    ELSE
      LET p == parseStartEnd(event)
      IN  IF p.err # "" THEN [acc EXCEPT !.err = p.err]
          ELSE IF ~overlaps(p.start, p.end, s) THEN acc
          ELSE
            LET category == categorise(email, event)
                d == p.end - p.start
            IN  [err |-> "",
                 totals |-> [acc.totals EXCEPT ![category] = @ + d],
                 totalMeetings |-> IF isCounted(category)
                                   THEN acc.totalMeetings + d
                                   ELSE acc.totalMeetings,
                 meetingFound |-> acc.meetingFound \/ isCounted(category)]

\* The loop over items from the k-th on; an error returns at once.
RECURSIVE eventLoop(_, _, _, _, _)
eventLoop(email, s, items, k, acc) ==
    IF k > Len(items) \/ acc.err # "" THEN acc
    ELSE eventLoop(email, s, items, k + 1, eventStep(email, s, items[k], acc))

\* main.go:169-173: the row of the calendar.
row(email, tz, free, tot, totalM) ==
    <<email, tz, Itoa(free)>>
        \o [k \in DOMAIN categories |-> SprintfHours(tot[categories[k]])]
        \o <<SprintfHours(totalM), SprintfPercent(Quo(totalM * 100, 40))>>

(***************************************************************************)
(* Inputs.                                                                 *)
(***************************************************************************)
Emails == {"a@x.com", "b@x.com", "c@x.com"}
Viewers == {"a@x.com", "b@x.com"}
Statuses == {"", "needsAction", "declined", "tentative", "accepted"}

\* Attendee lists; the data source lists an email address at most once.
AttendeeLists ==
    {l \in SeqsUpTo({Attendee(e, s) : e \in Emails, s \in Statuses}, MaxAttendees) :
        \A j, k \in DOMAIN l : j # k => l[j].Email # l[k].Email}

Descriptions == {<<>>, <<"agenda">>, <<"see">> \o LeverLink \o <<"/42">>}
Creators == {<<>>, <<[Self |-> TRUE]>>, <<[Self |-> FALSE]>>}
Summaries == {<<>>, <<"S", "y", "n", "c">>, <<"1", ":", "1">>,
              <<"1", ":", "1", " ", "A">>, <<"X", "1", ":", "1">>}

\* Ignore-list files: lines of tokens. Comment lines, lines with white space
\* around them, an empty line, a line that does not compile, a file that
\* cannot be opened and one that cannot be read to its end.
IgnoreFiles ==
    {File(<<>>),
     File(<< <<"#", "1", ":", "1">>, <<"1", ":", "1", ".*">> >>),
     File(<< <<" ", "#", "S", "y", "n", "c">>, <<" ", "1", ":", "1", ".*", " ">>,
             <<>>, <<"#">> >>),
     File(<< <<"S", "y", "n", "c">>, <<"#", ".*">> >>),
     File(<< <<"S", "y", "n", "c">>, <<"(">>, <<"1", ":", "1">> >>),
     MissingFile,
     BrokenFile(<< <<"S", "y", "n", "c">> >>)}

DefaultStart == StartString(4, 7)      \* Friday 2021-03-12 07:00:00
DefaultDuration == 24 * 7              \* main.go:43

NoEvent == Event(<<>>, <<>>, EmptyDateTime, EmptyDateTime, <<>>, <<>>, <<>>)
NoCall == [fn |-> "", email |-> "", event |-> NoEvent, tz |-> "", file |-> MissingFile]

\* The program itself is not running while one function is called directly.
\* No call of processCalendar is in progress: its locals hold zero values.
NoFrame ==
    /\ id = "" /\ cal = "" /\ slots = <<>> /\ timeMin = 0 /\ timeMax = 0
    /\ events = <<>> /\ si = 1 /\ freeSlots = 0 /\ totalMeetings = 0
    /\ totals = [c \in Range(categories) |-> 0] /\ columns = <<>>

Idle ==
    /\ args = <<>> /\ argi = 1 /\ pc = "call" /\ err = "" /\ csv = <<>>
    /\ NoFrame

\* Timestamps of the events handed to parseStartEnd.
ParseTimes == {104, 105, 106}
ParseStamps == {EmptyDateTime, BadDateTime} \cup {DateTime(t) : t \in ParseTimes}
ParseOriginals == {<<>>} \cup {<<[DateTime |-> d]>> : d \in ParseStamps}

\* -start and -duration values handed to workingSlots.
\* Monday, Friday and Saturday, at the time of day of the default -start.
StartDays == {0, 4, 5}
StartHours == {7}
StartStrings == {BadStartString} \cup {StartString(d, h) : d \in StartDays, h \in StartHours}
Durations == (0 - 1)..MaxDuration
TimeZones == Locations \cup {"Mars/Phobos"}

InitCategorise ==
    /\ \E f \in IgnoreFiles :
          /\ loadIgnores(f).err = ""
          /\ ignoreRegexps = loadIgnores(f).result
    /\ start = DefaultStart /\ duration = DefaultDuration
    /\ \E v \in Viewers, d \in Descriptions, c \in Creators,
          a \in AttendeeLists, t \in Summaries :
          call = [fn |-> "categorise", email |-> v, tz |-> "", file |-> MissingFile,
                  event |-> Event(t, d, DateTime(104), DateTime(105), <<>>, c, a)]

InitParseStartEnd ==
    /\ ignoreRegexps = <<>> /\ start = DefaultStart /\ duration = DefaultDuration
    /\ \E s \in ParseStamps, e \in ParseStamps, o \in ParseOriginals :
          call = [fn |-> "parseStartEnd", email |-> "", tz |-> "", file |-> MissingFile,
                  event |-> Event(<<>>, <<>>, s, e, o, <<>>, <<>>)]

InitWorkingSlots ==
    /\ ignoreRegexps = <<>>
    /\ start \in StartStrings
    /\ duration \in Durations
    /\ \E z \in TimeZones :
          call = [fn |-> "workingSlots", email |-> "", tz |-> z, event |-> NoEvent,
                  file |-> MissingFile]

InitLoadIgnores ==
    /\ ignoreRegexps = <<>> /\ start = DefaultStart /\ duration = DefaultDuration
    /\ \E f \in IgnoreFiles :
          call = [fn |-> "loadIgnores", email |-> "", tz |-> "", event |-> NoEvent,
                  file |-> f]

InitFn ==
    /\ Idle
    /\ ret = <<>>
    /\ (InitCategorise \/ InitParseStartEnd \/ InitWorkingSlots \/ InitLoadIgnores)

CallCategorise ==
    /\ call.fn = "categorise" /\ ret = <<>>
    /\ ret' = <<categorise(call.email, call.event)>>
    /\ UNCHANGED <<globals, mainVars, procVars, call>>

CallParseStartEnd ==
    /\ call.fn = "parseStartEnd" /\ ret = <<>>
    /\ ret' = <<parseStartEnd(call.event)>>
    /\ UNCHANGED <<globals, mainVars, procVars, call>>

CallWorkingSlots ==
    /\ call.fn = "workingSlots" /\ ret = <<>>
    /\ ret' = <<workingSlots(call.tz)>>
    /\ UNCHANGED <<globals, mainVars, procVars, call>>

CallLoadIgnores ==
    /\ call.fn = "loadIgnores" /\ ret = <<>>
    /\ ret' = <<loadIgnores(call.file)>>
    /\ UNCHANGED <<globals, mainVars, procVars, call>>

NextFn == CallCategorise \/ CallParseStartEnd \/ CallWorkingSlots \/ CallLoadIgnores

SpecFn == InitFn /\ [][NextFn]_vars

(***************************************************************************)
(* Properties of categorise, checked under SpecFn.                         *)
(***************************************************************************)
Categorised == call.fn = "categorise" /\ ret # <<>>

ViewerStatuses(v, e) ==
    {a.ResponseStatus : a \in {x \in Range(e.Attendees) : x.Email = v}}

CreatedByViewer(e) == e.Creator # <<>> /\ e.Creator[1].Self
NoAttendees(e) == e.Attendees = <<>>
OnlyViewerAttends(v, e) == Len(e.Attendees) = 1 /\ e.Attendees[1].Email = v
HasLeverLink(e) == \E k \in DOMAIN e.Description : <<e.Description[k]>> = LeverLink
TitleIgnored(e) == \E r \in Range(ignoreRegexps) : MatchString(r, e.Summary)

\* The condition of each rule of the classifier, as the rules are written.
RuleHolds(rule, v, e) ==
    CASE rule = hiring -> HasLeverLink(e)
      [] rule = personal ->
            CreatedByViewer(e) /\ (NoAttendees(e) \/ OnlyViewerAttends(v, e))
      [] rule = ignore -> TitleIgnored(e)
      [] rule = declined -> "declined" \in ViewerStatuses(v, e)
      [] rule = notAccepted ->
            \E st \in ViewerStatuses(v, e) : st # "" /\ st # "accepted"
      [] rule = meeting -> TRUE

Priority == <<hiring, personal, ignore, declined, notAccepted, meeting>>

\* C1: categorise returns one of the six categories; the result is the
\* category of the highest-priority rule whose condition holds, whatever
\* lower-priority conditions hold as well (hiring > personal > ignored >
\* declined > not accepted > meeting); and "meeting" is returned only when
\* the condition of no other rule holds.
C1_PriorityOrder ==
    Categorised =>
        LET v == call.email
            e == call.event
        IN  /\ ret[1] \in Range(categories)
            /\ \A k \in 1..5 :
                  (RuleHolds(Priority[k], v, e)
                     /\ \A j \in 1..(k - 1) : ~RuleHolds(Priority[j], v, e))
                  => ret[1] = Priority[k]
            /\ ret[1] = meeting => \A k \in 1..5 : ~RuleHolds(Priority[k], v, e)

\* The hiring marker, a self-created event without attendees and an ignored
\* title all at once: classified hiring.
C1_Witness ==
    /\ Categorised
    /\ HasLeverLink(call.event)
    /\ CreatedByViewer(call.event) /\ NoAttendees(call.event)
    /\ TitleIgnored(call.event)
    /\ ret[1] = hiring

HigherThanNotAccepted(v, e) ==
    \E k \in 1..4 : RuleHolds(Priority[k], v, e)

\* C5 as stated: "not accepted" is returned only when the viewer's attendee
\* record has a response status that is present (non-empty) and is not
\* "accepted"; an event whose viewer record has no response status and which
\* matches no higher-priority rule is not classified "not accepted".
C5_Original ==
    Categorised =>
        LET v == call.email
            e == call.event
        IN  /\ ret[1] = notAccepted =>
                  \E st \in ViewerStatuses(v, e) : st # "" /\ st # "accepted"
            /\ (ViewerStatuses(v, e) = {""} /\ ~HigherThanNotAccepted(v, e))
                  => ret[1] # notAccepted

\* C5 amended: "not accepted" is returned only when the viewer's attendee
\* record has a response status other than "accepted" and "declined", the
\* empty (absent) status included; an event whose viewer record has no
\* response status and which matches no higher-priority rule is classified
\* "not accepted".
C5_Amended ==
    Categorised =>
        LET v == call.email
            e == call.event
        IN  /\ ret[1] = notAccepted =>
                  \E st \in ViewerStatuses(v, e) : st # "accepted" /\ st # "declined"
            /\ (ViewerStatuses(v, e) = {""} /\ ~HigherThanNotAccepted(v, e))
                  => ret[1] = notAccepted

C5_Witness ==
    /\ Categorised
    /\ ViewerStatuses(call.email, call.event) = {""}
    /\ ret[1] = notAccepted

\* C6 as stated: for an event without the hiring marker, categorise returns
\* "personal" exactly when the event was created by the viewer and has no
\* attendees, or has exactly one attendee who is the viewer.
C6_Original ==
    (Categorised /\ ~HasLeverLink(call.event)) =>
        (ret[1] = personal <=>
            \/ CreatedByViewer(call.event) /\ NoAttendees(call.event)
            \/ OnlyViewerAttends(call.email, call.event))

\* C6 amended: for an event without the hiring marker, categorise returns
\* "personal" exactly when the event was created by the viewer and either
\* has no attendees or has exactly one attendee who is the viewer.
C6_Amended ==
    (Categorised /\ ~HasLeverLink(call.event)) =>
        (ret[1] = personal <=>
            /\ CreatedByViewer(call.event)
            /\ NoAttendees(call.event) \/ OnlyViewerAttends(call.email, call.event))

C6_Witness ==
    /\ Categorised
    /\ ~CreatedByViewer(call.event)
    /\ OnlyViewerAttends(call.email, call.event)
    /\ ~HasLeverLink(call.event)
    /\ ret[1] # personal

(***************************************************************************)
(* Properties of parseStartEnd, checked under SpecFn.                      *)
(***************************************************************************)
Later(a, b) == IF a > b THEN a ELSE b

\* C2: for a timed event parseStartEnd returns (S, E) with S the later of the
\* declared start and the original start time (the declared start when the
\* event has none), and E = S + (declared end - declared start).
C2_EffectiveInterval ==
    (/\ call.fn = "parseStartEnd" /\ ret # <<>>
     /\ ret[1].err = ""
     /\ \A o \in Range(call.event.OriginalStartTime) : o.DateTime.text = "rfc3339")
    =>
        LET e == call.event
            declaredStart == e.Start.DateTime.t
            declaredEnd == e.End.DateTime.t
            S == IF e.OriginalStartTime = <<>> THEN declaredStart
                 ELSE Later(declaredStart, e.OriginalStartTime[1].DateTime.t)
        IN  /\ ret[1].start = S
            /\ ret[1].end = S + (declaredEnd - declaredStart)

(***************************************************************************)
(* Properties of workingSlots, checked under SpecFn.                       *)
(***************************************************************************)
SlotsReturned == call.fn = "workingSlots" /\ ret # <<>> /\ ret[1].err = ""

\* The days the loop visits: start + 24h * k for every k with 24 * k < duration.
Visited == {k \in 0..(MaxDuration + 1) : 24 * k < duration}
BusinessVisits ==
    {k \in Visited : Weekday(call.tz, ret[1].start + 24 * k) \notin {Saturday, Sunday}}

\* C7: the slots are in chronological order, one Morning slot followed by one
\* Afternoon slot for each visited day that is not a Saturday or Sunday and
\* none for a Saturday or Sunday; a Morning slot covers 07:00-13:00 and an
\* Afternoon slot 13:00-19:00 local time of its day.
C7_WorkdaySlots ==
    SlotsReturned =>
        LET r == ret[1]
            z == call.tz
        IN  /\ Len(r.slots) = 2 * Cardinality(BusinessVisits)
            /\ \A k \in BusinessVisits :
                  \E j \in DOMAIN r.slots : r.slots[j].start = r.start + 24 * k
            /\ \A j \in 1..(Len(r.slots) - 1) : r.slots[j].start < r.slots[j + 1].start
            /\ \A j \in 1..(Len(r.slots) \div 2) :
                  LET m == r.slots[2 * j - 1]
                      a == r.slots[2 * j]
                  IN  /\ m.summary[2] = "Morning" /\ a.summary[2] = "Afternoon"
                      /\ m.summary[1] = a.summary[1]
                      /\ Weekday(z, m.start) \notin {Saturday, Sunday}
                      /\ CivilDay(z, m.end) = CivilDay(z, m.start)
                      /\ CivilDay(z, a.end) = CivilDay(z, m.start)
                      /\ HourOfDay(z, m.start) = 7 /\ HourOfDay(z, m.end) = 13
                      /\ HourOfDay(z, a.start) = 13 /\ HourOfDay(z, a.end) = 19

SlotsInsideWindow ==
    LET r == ret[1]
    IN  /\ r.end = r.start + duration
        /\ \A j \in DOMAIN r.slots :
              r.start <= r.slots[j].start /\ r.slots[j].end <= r.end

\* C10 as stated: for every start time and every duration, every slot lies
\* inside the window returned with it (windowStart <= slot.start and
\* slot.end <= windowEnd = windowStart + duration hours).
C10_Original == SlotsReturned => SlotsInsideWindow

\* C10 amended: for every start time, and every duration that is not
\* positive or whose remainder modulo 24 is 0 or at least 12 (the default
\* 168 among them), every slot lies inside the window returned with it.
C10_Amended ==
    (SlotsReturned /\ (duration <= 0 \/ duration % 24 = 0 \/ duration % 24 >= 12))
        => SlotsInsideWindow

C10_Witness ==
    /\ SlotsReturned
    /\ duration % 24 = 12
    /\ Len(ret[1].slots) >= 4
    /\ ret[1].slots[Len(ret[1].slots)].end = ret[1].end

(***************************************************************************)
(* The program: main and processCalendar (main.go:38-180).                 *)
(***************************************************************************)
MeetingOf(st) ==
    [summary |-> <<"S", "y", "n", "c">>, description |-> <<"agenda">>,
     creator |-> <<[Self |-> FALSE]>>,
     attendees |-> <<Attendee("a@x.com", st), Attendee("b@x.com", "needsAction")>>]

WithKind(kind, from, to, original) ==
    Event(kind.summary, kind.description, DateTime(from), DateTime(to),
          original, kind.creator, kind.attendees)

\* What an event is about, apart from its times: for the viewer a@x.com a
\* meeting, a hiring interview, a declined meeting and an ignored title.
Kinds ==
    {MeetingOf("accepted"),
     [MeetingOf("accepted") EXCEPT !.description = <<"see">> \o LeverLink \o <<"/42">>],
     MeetingOf("declined"),
     [MeetingOf("accepted") EXCEPT !.summary = <<"1", ":", "1", " ", "A">>]}

PersonalKind ==
    [MeetingOf("accepted") EXCEPT !.creator = <<[Self |-> TRUE]>>, !.attendees = <<>>]

\* The events the data source may return.  With the default start the slots
\* of Friday are [103,109) and [109,115) in UTC and [108,114) and [114,120)
\* in New York; those of Monday start at 175 in UTC and at 180 in New York.
CalendarEvents ==
    {WithKind(k, 103, 109, <<>>) : k \in Kinds}
      \cup {WithKind(k, 108, 114, <<>>) : k \in {MeetingOf("accepted"), MeetingOf("declined")}}
      \cup {WithKind(PersonalKind, 105, 106, <<>>),
            WithKind(MeetingOf("accepted"), 105, 106, <<[DateTime |-> DateTime(110)]>>),
            WithKind(MeetingOf("accepted"), 103, 123, <<>>),
            WithKind(MeetingOf("accepted"), 181, 182, <<>>),
            Event(<<"O", "f", "f">>, <<>>, EmptyDateTime, EmptyDateTime, <<>>,
                  <<[Self |-> FALSE]>>, <<Attendee("a@x.com", "accepted")>>),
            Event(<<"S", "y", "n", "c">>, <<>>, BadDateTime, DateTime(106), <<>>,
                  <<[Self |-> FALSE]>>, <<Attendee("a@x.com", "accepted")>>),
            Event(<<"S", "y", "n", "c">>, <<>>, DateTime(130), BadDateTime, <<>>,
                  <<[Self |-> FALSE]>>, <<Attendee("a@x.com", "accepted")>>)}

EventLists == SeqsUpTo(CalendarEvents, MaxEvents)

\* The files the -ignorelist flag may name.
IgnoreListFiles ==
    {File(<< <<"#", " ", "1", ":", "1">>, <<" ", "1", ":", "1", ".*", " ">> >>),
     File(<< <<"(">> >>),
     MissingFile}
ArgLists == {<<"a@x.com", "b@x.com">>}
FlagStarts == {DefaultStart, BadStartString}
FlagDurations == {0, 24, 96}

\* main.go:61-63: the header row.
header ==
    <<"email", "tz", "half days free">> \o categories \o <<"meeting hours", "% meetings">>

\* main.go:38-44: the flags are parsed, nothing else has happened.
Init ==
    /\ ignoreRegexps = <<>>
    /\ start \in FlagStarts
    /\ duration \in FlagDurations
    /\ args \in ArgLists
    /\ argi = 1 /\ pc = "start" /\ err = "" /\ csv = <<>>
    /\ NoFrame
    /\ call = NoCall /\ ret = <<>>

\* log.Fatalf of main.go:50, 55, 65 and 70: the error ends the run.
Fatal(e) ==
    /\ pc' = "fatal"
    /\ err' = e

\* main.go:46-51: the ignore list is loaded and compiled.
LoadIgnores ==
    /\ pc = "start"
    /\ \E f \in IgnoreListFiles :
          /\ loadIgnores(f).err = ""
          /\ ignoreRegexps' = loadIgnores(f).result
    /\ pc' = "connect"
    /\ UNCHANGED <<start, duration, args, argi, err, csv, procVars, callVars>>

\* main.go:48-51: loadIgnores returns (nil, err).
LoadIgnoresFails ==
    /\ pc = "start"
    /\ \E f \in IgnoreListFiles :
          /\ loadIgnores(f).err # ""
          /\ ignoreRegexps' = loadIgnores(f).result
          /\ Fatal(loadIgnores(f).err)
    /\ UNCHANGED <<start, duration, args, argi, csv, procVars, callVars>>

\* main.go:53-56: calendar.Connect succeeds.
Connect ==
    /\ pc = "connect"
    /\ pc' = "header"
    /\ UNCHANGED <<globals, args, argi, err, csv, procVars, callVars>>

\* main.go:53-56: calendar.Connect fails.
ConnectFails ==
    /\ pc = "connect"
    /\ Fatal("DataSourceError")
    /\ UNCHANGED <<globals, args, argi, csv, procVars, callVars>>

\* main.go:58-66: the header row is handed to the writer.
WriteHeader ==
    /\ pc = "header"
    /\ csv' = Append(csv, header[1])
    /\ pc' = "main"
    /\ UNCHANGED <<globals, args, argi, err, procVars, callVars>>

\* main.go:64-66: writer.Write of the header row fails.
WriteHeaderFails ==
    /\ pc = "header"
    /\ Fatal("OutputError")
    /\ UNCHANGED <<globals, args, argi, csv, procVars, callVars>>

\* main.go:68-69: the next id of flag.Args() is handed to processCalendar.
MainCall ==
    /\ pc = "main" /\ argi <= Len(args)
    /\ id' = args[argi]
    /\ pc' = "processCalendar"
    /\ UNCHANGED <<globals, args, argi, err, csv, cal, slots, timeMin, timeMax,
                   events, si, freeSlots, totalMeetings, totals, columns, callVars>>

\* main.go:68-73: the loop is over, main returns (and the deferred
\* writer.Flush of line 59 runs).
MainReturn ==
    /\ pc = "main" /\ argi > Len(args)
    /\ pc' = "exit"
    /\ UNCHANGED <<globals, args, argi, err, csv, procVars, callVars>>

\* main.go:108-111: srv.Calendars.Get fails.
GetCalendarFails ==
    /\ pc = "processCalendar"
    /\ Fatal("DataSourceError")
    /\ UNCHANGED <<globals, args, argi, csv, procVars, callVars>>

\* main.go:113-116: the calendar's time zone or the -start flag is rejected.
WorkingSlotsFails ==
    /\ pc = "processCalendar"
    /\ \E tz \in TimeZones :
          /\ workingSlots(tz).err # ""
          /\ cal' = tz
          /\ Fatal(workingSlots(tz).err)
    /\ UNCHANGED <<globals, args, argi, csv, id, slots, timeMin, timeMax, events,
                   si, freeSlots, totalMeetings, totals, columns, callVars>>

\* main.go:118-124: srv.Events.List fails.
ListEventsFails ==
    /\ pc = "processCalendar"
    /\ \E tz \in TimeZones :
          LET w == workingSlots(tz)
          IN  /\ w.err = ""
              /\ cal' = tz
              /\ slots' = w.slots /\ timeMin' = w.start /\ timeMax' = w.end
    /\ Fatal("DataSourceError")
    /\ UNCHANGED <<globals, args, argi, csv, id, events, si, freeSlots,
                   totalMeetings, totals, columns, callVars>>

\* main.go:108-128: the calendar, its slots and its events are there and the
\* accumulators are zero.
ProcessCalendarBegin ==
    /\ pc = "processCalendar"
    /\ \E tz \in TimeZones :
          LET w == workingSlots(tz)
          IN  /\ w.err = ""
              /\ cal' = tz
              /\ slots' = w.slots /\ timeMin' = w.start /\ timeMax' = w.end
    /\ events' \in EventLists
    /\ si' = 1 /\ freeSlots' = 0 /\ totalMeetings' = 0
    /\ totals' = [c \in Range(categories) |-> 0]
    /\ columns' = <<>>
    /\ pc' = "slots"
    /\ UNCHANGED <<globals, args, argi, err, csv, id, callVars>>

SlotResult ==
    eventLoop(id, slots[si], events, 1,
              [err |-> "", totals |-> totals, totalMeetings |-> totalMeetings,
               meetingFound |-> FALSE])

\* main.go:130-167: one iteration of the loop over slots, without error.
SlotStep ==
    /\ pc = "slots" /\ si <= Len(slots)
    /\ SlotResult.err = ""
    /\ totals' = SlotResult.totals
    /\ totalMeetings' = SlotResult.totalMeetings
    /\ freeSlots' = IF SlotResult.meetingFound THEN freeSlots ELSE freeSlots + 1
    /\ si' = si + 1
    /\ UNCHANGED <<globals, mainVars, id, cal, slots, timeMin, timeMax, events,
                   columns, callVars>>

\* main.go:143-146: parseStartEnd fails inside the loop, processCalendar
\* returns the error.
SlotStepFails ==
    /\ pc = "slots" /\ si <= Len(slots)
    /\ SlotResult.err # ""
    /\ Fatal(SlotResult.err)
    /\ totals' = SlotResult.totals
    /\ totalMeetings' = SlotResult.totalMeetings
    /\ UNCHANGED <<globals, args, argi, csv, id, cal, slots, timeMin, timeMax,
                   events, si, freeSlots, columns, callVars>>

\* main.go:169-177: the row is built and written.
WriteRow ==
    /\ pc = "slots" /\ si > Len(slots)
    /\ columns' = row(id, cal, freeSlots, totals, totalMeetings)
    /\ csv' = Append(csv, id)
    /\ pc' = "return"
    /\ UNCHANGED <<globals, args, argi, err, id, cal, slots, timeMin, timeMax,
                   events, si, freeSlots, totalMeetings, totals, callVars>>

\* main.go:179 and 68: processCalendar returns nil, its locals are gone, and
\* main's loop moves to the next id.
ProcessCalendarReturn ==
    /\ pc = "return"
    /\ id' = "" /\ cal' = "" /\ slots' = <<>> /\ timeMin' = 0 /\ timeMax' = 0
    /\ events' = <<>> /\ si' = 1 /\ freeSlots' = 0 /\ totalMeetings' = 0
    /\ totals' = [c \in Range(categories) |-> 0] /\ columns' = <<>>
    /\ argi' = argi + 1
    /\ pc' = "main"
    /\ UNCHANGED <<globals, args, err, csv, callVars>>

\* main.go:175-177: writer.Write fails.
WriteRowFails ==
    /\ pc = "slots" /\ si > Len(slots)
    /\ columns' = row(id, cal, freeSlots, totals, totalMeetings)
    /\ Fatal("OutputError")
    /\ UNCHANGED <<globals, args, argi, csv, id, cal, slots, timeMin, timeMax,
                   events, si, freeSlots, totalMeetings, totals, callVars>>

Next ==
    \/ LoadIgnores
    \/ LoadIgnoresFails
    \/ Connect
    \/ ConnectFails
    \/ WriteHeader
    \/ WriteHeaderFails
    \/ MainCall
    \/ MainReturn
    \/ GetCalendarFails
    \/ WorkingSlotsFails
    \/ ListEventsFails
    \/ ProcessCalendarBegin
    \/ SlotStep
    \/ SlotStepFails
    \/ WriteRow
    \/ WriteRowFails
    \/ ProcessCalendarReturn

Spec == Init /\ [][Next]_vars

(***************************************************************************)
(* Properties of processCalendar and main, checked under Spec.             *)
(***************************************************************************)
IsTimed(event) == event.Start.DateTime # EmptyDateTime

HasMalformed(items) ==
    \E k \in DOMAIN items :
        /\ IsTimed(items[k])
        /\ \/ items[k].Start.DateTime.text # "rfc3339"
           \/ items[k].End.DateTime.text # "rfc3339"

\* The calendar in hand has a malformed timed event: the loop completes no
\* iteration and writes no row, the only step left is the error return, and
\* after it the run is over with no row for this calendar or a later one.
FailsFast ==
    /\ pc # "return"
    /\ id \notin Range(csv)
    /\ pc = "slots" => (si = 1 /\ ENABLED SlotStepFails
                               /\ ~ENABLED SlotStep /\ ~ENABLED WriteRow)
    /\ pc = "fatal" => (Len(csv) = argi /\ ~ENABLED Next)

\* C3 as stated: whenever the fetched event list holds a timed event whose
\* start or end cannot be parsed, processCalendar returns an error, no row
\* is written for the calendar and main processes no later calendar, for
\* every window, windows without slots included.
C3_Original == HasMalformed(events) => FailsFast

\* C3 amended: whenever the fetched event list holds a timed event whose
\* start or end cannot be parsed and workingSlots generated at least one
\* slot, processCalendar returns an error, no row is written for the
\* calendar and main processes no later calendar.
C3_Amended == (HasMalformed(events) /\ slots # <<>>) => FailsFast

C3_Witness ==
    /\ pc = "fatal" /\ err = "MalformedEventTime"
    /\ HasMalformed(events) /\ slots # <<>>
    /\ argi = 1 /\ Len(args) = 2 /\ csv = <<header[1]>>

InLoop == pc \in {"slots", "return"}

\* The interval parseStartEnd resolves for the j-th event.
Resolved(j) == parseStartEnd(events[j])

InSlot(j, s) ==
    /\ IsTimed(events[j])
    /\ Resolved(j).start < slots[s].end
    /\ Resolved(j).end > slots[s].start

Occupied(s) ==
    \E j \in DOMAIN events :
        InSlot(j, s) /\ categorise(id, events[j]) \in {hiring, meeting}

\* C4: once the loop has passed a slot, the slot has been counted in
\* freeSlots if and only if no event overlapping it is classified hiring or
\* meeting; freeSlots plus the number of slots with such an event is the
\* number of slots passed, all the generated slots when the loop is over.
C4_FreeSlots ==
    InLoop =>
        /\ freeSlots = Cardinality({s \in 1..(si - 1) : ~Occupied(s)})
        /\ freeSlots + Cardinality({s \in 1..(si - 1) : Occupied(s)}) = si - 1
        /\ pc = "return" => (si - 1 = Len(slots) /\ columns[3] = Itoa(freeSlots))

\* A row with a free slot that a declined event overlaps, and an occupied slot.
C4_Witness ==
    /\ pc = "return"
    /\ freeSlots > 0 /\ freeSlots < Len(slots)
    /\ \E s \in DOMAIN slots, j \in DOMAIN events :
          ~Occupied(s) /\ InSlot(j, s) /\ categorise(id, events[j]) = declined

RECURSIVE SumSeq(_)
SumSeq(q) == IF q = <<>> THEN 0 ELSE Head(q) + SumSeq(Tail(q))

\* What the pair (slot s, event j) adds to the total of category c.
Contribution(s, j, c) ==
    IF InSlot(j, s) /\ categorise(id, events[j]) = c
    THEN Resolved(j).end - Resolved(j).start
    ELSE 0

\* The sum over the pairs of the first n slots and all the events.
ExpectedTotal(c, n) ==
    SumSeq([q \in 1..(n * Len(events)) |->
               Contribution(((q - 1) \div Len(events)) + 1,
                            ((q - 1) % Len(events)) + 1, c)])

\* C8: the total of category c is the sum, over the pairs (slot, event) with
\* the event timed, start < slot.end and end > slot.start, and classified c,
\* of the event's whole duration; all-day events add to no total; and the
\* row carries these totals.
C8_Totals ==
    InLoop =>
        /\ \A c \in Range(categories) : totals[c] = ExpectedTotal(c, si - 1)
        /\ pc = "return" =>
              \A k \in DOMAIN categories :
                  columns[3 + k] = SprintfHours(ExpectedTotal(categories[k], Len(slots)))

\* A row for a list with an all-day event and a timed event that ends
\* exactly where a slot starts and is counted in the slot before it.
C8_Witness ==
    /\ pc = "return"
    /\ \E j \in DOMAIN events : ~IsTimed(events[j])
    /\ \E j \in DOMAIN events, s \in DOMAIN slots :
          /\ IsTimed(events[j]) /\ Resolved(j).end = slots[s].start
          /\ s > 1 /\ InSlot(j, s - 1)
          /\ totals[categorise(id, events[j])] > 0

\* C9: the "% meetings" column is the decimal integer
\* floor(T * 100 / 40 hours) followed by "%", T being the total counted
\* duration, which is the sum of the hiring and the meeting totals.
C9_Percent ==
    pc = "return" =>
        /\ totalMeetings >= 0
        /\ totalMeetings = totals[hiring] + totals[meeting]
        /\ columns[Len(columns)] = Digits((totalMeetings * 100) \div 40) \o <<"%">>

====
